---- MODULE Spec2Model ----
(***************************************************************************)
(* Model of the tiered memory engine of egobogo/aiagentfun:                *)
(*   InMemoryContextStorage  (internal/context/inmemory/inmemory.go)       *)
(*   HNSWSimilaritySearcher  (internal/context/similarity/hnsw)            *)
(* Every store method runs under the store's lock from entry to return,    *)
(* so each method is one action here.  BaseAgent (internal/agent) drives  *)
(* the store through Think and createContext.                              *)
(***************************************************************************)
EXTENDS Integers, Sequences, FiniteSets, TLC

\* ------------------------------------------------------------------ bounds
MaxIds == 2          \* number of ids uuid.New() can hand out in one run
MaxBatch == 2        \* longest candidate list given to FilterRelatedMemories
MaxProcs == 2        \* goroutines calling the store concurrently
MaxStale == 2        \* longest DeleteIDs list the model client answers with
MaxCycles == 1       \* calls of Think or createContext in one run
MaxIndexed == 1      \* records the goroutines of the lock analysis may store
MaxSteps == 2        \* steps in Config.Workflow.Steps
MaxChoices == 2      \* longest list of raw options of one step

\* ------------------------------------------------------- program constants
dim == 2             \* embedding dimension the searcher is built with
SearchK == 10        \* k passed by SearchMemories to Search
SearchThreshold == 1 \* threshold passed by SearchMemories, in tenths (0.1)

\* ------------------------------------------------------------ input sets
IDs == 1..MaxIds
NoId == MaxIds + 1   \* stands for "no id" in the call record
Ks == {1, 2, SearchK}
\* thresholds in tenths: 0.0, 0.1, 0.5
Thresholds == {0, SearchThreshold, 5}
Texts == {"a", "b", "c", "x"}
Procs == 1..MaxProcs

\* A hot context string, kept as its parts: the text before the rendered
\* list and the list rendered with %v.  NoContext is the empty string "".
NoContext == [kind |-> "", mems |-> <<>>]
\* Texts a caller or the model client can produce.
HotTexts == { NoContext, [kind |-> "h1", mems |-> <<>>],
              [kind |-> "h2", mems |-> <<>>] }

\* EasyMemory values (Category, Content, Importance) offered to the store.
EasyMemory ==
  { [Category |-> "Architecture", Content |-> "a", Importance |-> 5],
    [Category |-> "Architecture", Content |-> "c", Importance |-> 3],
    [Category |-> "Performance",  Content |-> "x", Importance |-> 2] }

\* Candidate lists of length 0..MaxBatch.
Batches == UNION { [1..n -> EasyMemory] : n \in 0..MaxBatch }

\* --------------------------------------------------- embedding provider
\* A deterministic provider: the same text always yields the same vector.
\* "x" yields a vector whose length differs from dim.  Whether a call
\* fails is an input of the calling action.
ComputeEmbedding(text) ==
  CASE text = "a" -> <<1, 0>>
    [] text = "b" -> <<0, 1>>
    [] text = "c" -> <<3, 3>>
    [] OTHER      -> <<1, 0, 0>>

\* ------------------------------------------------------------- arithmetic
Min(a, b) == IF a <= b THEN a ELSE b

RECURSIVE SumProd(_, _, _)
SumProd(a, b, n) == IF n = 0 THEN 0 ELSE a[n] * b[n] + SumProd(a, b, n - 1)

\* float32(v): integers up to 2^24 in magnitude are exact, beyond that the
\* 24-bit significand drops the low bit.
Float32(v) ==
  IF -16777216 <= v /\ v <= 16777216 THEN v ELSE (v \div 2) * 2

float32Slice(input) == [i \in 1..Len(input) |-> Float32(input[i])]

\* IEEE-754 double evaluation of dot / (Sqrt(normA) * Sqrt(normB)) yields a
\* value above 1.0 for these <<dot, normA, normB>>:
\*   Sqrt(13)*Sqrt(13) = 12.999999999999998, Sqrt(18)*Sqrt(18) = 17.999999999999996,
\* so 13/12.999999999999998 = 18/17.999999999999996 = 1.0000000000000002.
RoundsAboveOne == { <<13, 13, 13>>, <<18, 18, 18>> }

\* cosineSimilarity(a, b): the float64 result, kept as the exact value
\* num / sqrt(sq) together with the flag that the computed double exceeds 1.
cosineSimilarity(a, b) ==
  IF Len(a) # Len(b) THEN [num |-> 0, sq |-> 1, above |-> FALSE]
  ELSE LET dot   == SumProd(a, b, Len(a))
           normA == SumProd(a, a, Len(a))
           normB == SumProd(b, b, Len(b))
       IN IF normA = 0 \/ normB = 0
          THEN [num |-> 0, sq |-> 1, above |-> FALSE]
          ELSE [num |-> dot, sq |-> normA * normB,
                above |-> <<dot, normA, normB>> \in RoundsAboveOne]

\* The test of Search:  sim := 1.0 - cosineSimilarity(..);  sim >= threshold
\* with the threshold t10 given in tenths, 0 <= t10 <= 10.
SimPasses(c, t10) ==
  IF c.above THEN FALSE
  ELSE \/ c.num <= 0
       \/ 100 * c.num * c.num <= (10 - t10) * (10 - t10) * c.sq

\* Exact cosine similarity c >= t10/10.
CosAtLeast(c, t10) ==
  IF t10 <= 0 THEN c.num >= 0 \/ 100 * c.num * c.num <= t10 * t10 * c.sq
  ELSE c.num > 0 /\ 100 * c.num * c.num >= t10 * t10 * c.sq

\* ------------------------------------------------------------------ state
VARIABLES
  hotContext,   \* InMemoryContextStorage.hotContext
  coldStorage,  \* InMemoryContextStorage.coldStorage : id -> MemoryEntry
  graph,        \* HNSWSimilaritySearcher.graph : id -> []float32 node value
  memMap,       \* HNSWSimilaritySearcher.memMap : id -> MemoryEntry
  issued,       \* ids uuid.New() has returned so far
  last,         \* the most recent call: operation, arguments and what it returned
  pc,           \* where each goroutine stands in the store method it runs
  mu,           \* InMemoryContextStorage.mu: the writer and the readers holding it
  loc,          \* the local variables of each goroutine's call
  hist,         \* what the concurrent calls have completed so far
  smu,          \* HNSWSimilaritySearcher.mu: the goroutine holding it
  pool,         \* the values the next uuid.New() can return
  build,        \* which version of the agent package is running
  cyc,          \* the agent's position in Think or createContext, and its locals
  wm            \* the WorkflowManager: its current step, its Config, its last call

store == <<hotContext, coldStorage, graph, memMap, issued>>
conc == <<pc, mu, loc, hist, smu>>
agent == <<pool, build, cyc, wm>>
vars == <<hotContext, coldStorage, graph, memMap, issued, last, pc, mu, loc, hist,
          smu, pool, build, cyc, wm>>

Empty == [i \in {} |-> 0]

Put(f, key, v) == [i \in DOMAIN f \cup {key} |-> IF i = key THEN v ELSE f[i]]
Drop(f, key) == [i \in DOMAIN f \ {key} |-> f[i]]

NoEmbedding == <<>>

\* prov: whether the provider was made to fail in this call; err: the error
\* the call returned ("nil" for none, and for calls that return no error);
\* calls: how many ComputeEmbedding calls and index queries a recall made;
\* ctx: the hot context passed to SetContext or returned by GetContext.
Call(op, id, text, k, t, err, result) ==
  [op |-> op, id |-> id, text |-> text, k |-> k, t |-> t,
   err |-> err, result |-> result, batch |-> <<>>, prov |-> "ok",
   calls |-> [provider |-> 0, index |-> 0], ctx |-> NoContext]

Failed(call, provOK) == IF provOK THEN call ELSE [call EXCEPT !.prov = "failed"]

NoProc == MaxProcs + 1   \* stands for "no goroutine"

\* A goroutine's locals before it has called anything.
NoLocals ==
  [mem |-> [Category |-> "", Content |-> "", Importance |-> 0],
   id |-> NoId, text |-> "", ctx |-> NoContext, ret |-> NoContext,
   found |-> {}, batch |-> <<>>, i |-> 0]

\* The two versions of package agent in the tree, named after the method
\* that turns an input into candidate memories: BaseAgent with Summarize
\* (whose createContext summarizes everything first), and BaseAgent with
\* CreateThoughts (whose createContext stores the documentation memories at
\* once).
Builds == {"Summarize", "CreateThoughts"}

\* Ids in a run of the agent, and the DeleteIDs lists the model client can
\* answer with.
CycleIDs == 1..(MaxIds + 1)
StaleLists == UNION { [1..n -> CycleIDs] : n \in 0..MaxStale }

\* The agent before it has called anything.
NoCycle ==
  [fn |-> "", pc |-> "idle", pass |-> 0, cands |-> <<>>, docs |-> <<>>,
   related |-> {}, merged |-> NoContext, del |-> <<>>, i |-> 0,
   ret |-> "", refresh |-> "", clean |-> TRUE, runs |-> 0, drawn |-> 0,
   merges |-> 0,
   pre |-> [hot |-> NoContext, cold |-> Empty, graph |-> Empty,
            memMap |-> Empty]]

\* ------------------------------------------------- package workflow
\* Step ids are named by numbers: 1..MaxSteps are the ids of the steps in
\* Config.Workflow.Steps, NoStep is a string that is the id of no step (the
\* empty string of a configuration without currentStep among them).
StepIDs == 1..MaxSteps
NoStep == MaxSteps + 1
StepNames == StepIDs \cup {NoStep}

\* A raw option of a decision list without a string under "nextStep".
Malformed == 0

\* The Next / Options fields of a config.Step, by what NextChoices makes of
\* them: neither field set; Next of a type the switch does not handle; Next
\* a string; a list of raw options (Options, Next with a "decision" list,
\* or a slice of such branches).
RawOptions ==
  UNION { [1..n -> StepNames \cup {Malformed}] : n \in 0..MaxChoices }
Step ==
  {[form |-> "none", raw |-> <<>>], [form |-> "unsupported", raw |-> <<>>]}
    \cup { [form |-> "string", raw |-> <<t>>] : t \in StepNames }
    \cup { [form |-> "decision", raw |-> r] : r \in RawOptions }

\* config.Config as loaded from the YAML file.
Config == [CurrentStep : StepNames, Steps : [StepIDs -> Step]]

\* NewWorkflowManager(cfg); call is the most recent call and its error.
NewWorkflowManager(cfg) ==
  [Config |-> cfg, currentStep |-> cfg.CurrentStep,
   call |-> [op |-> "New", id |-> NoStep, err |-> "nil"]]

\* No workflow manager was made.
NoWorkflow ==
  [Config |-> [CurrentStep |-> NoStep, Steps |-> <<>>], currentStep |-> NoStep,
   call |-> [op |-> "", id |-> NoStep, err |-> "nil"]]

Init ==
  /\ hotContext = NoContext
  /\ coldStorage = Empty
  /\ graph = Empty
  /\ memMap = Empty
  /\ issued = {}
  /\ last = Call("New", NoId, "", 0, 0, "nil", {})
  /\ pc = [p \in Procs |-> "idle"]
  /\ mu = [writer |-> NoProc, readers |-> {}, pending |-> NoProc]
  /\ loc = [p \in Procs |-> NoLocals]
  /\ hist = [commits |-> <<>>, spoiled |-> FALSE, overlap |-> FALSE,
             setDone |-> NoContext]
  /\ smu = NoProc
  /\ pool = IDs
  /\ build = "Summarize"
  /\ cyc = NoCycle
  /\ wm = NoWorkflow

\* A generator that hands out any id not in use at the moment.
NewUUIDsReusing == IDs \ DOMAIN coldStorage

\* A generator that may return a value it has returned before.
NewUUIDsRepeating == IDs

\* ------------------------------------------------------------------ uuid
\* uuid.New(): a random (version 4) UUID; it does not repeat a value it
\* returned before.
NewUUIDs == pool \ issued

\* time.Now() at the moment of a Remember: one tick per generated entry.
Now == Cardinality(issued) + 1

\* An IndexMemory that adds the node whatever the length of the vector.
IndexMemoryUnchecked(mem) ==
  [err |-> "nil",
   graph |-> Put(graph, mem.ID, float32Slice(mem.Embedding)),
   memMap |-> Put(memMap, mem.ID, mem)]

\* ----------------------------------------------------- similarity searcher
\* IndexMemory(mem): the error it returns and the searcher's state after it.
IndexMemory(mem) ==
  IF Len(mem.Embedding) # dim
  THEN [err |-> "embedding dimension mismatch", graph |-> graph, memMap |-> memMap]
  ELSE [err |-> "nil",
        graph |-> Put(graph, mem.ID, float32Slice(mem.Embedding)),
        memMap |-> Put(memMap, mem.ID, mem)]

\* cos(q, v1) >= cos(q, v2), the order in which the graph ranks neighbours
\* (cosine distance, the library's default).
CloserOrEqual(q, v1, v2) ==
  LET d1 == SumProd(q, v1, Len(q))
      d2 == SumProd(q, v2, Len(q))
      n1 == SumProd(v1, v1, Len(v1))
      n2 == SumProd(v2, v2, Len(v2))
  IN IF d1 >= 0 /\ d2 >= 0 THEN d1 * d1 * n2 >= d2 * d2 * n1
     ELSE IF d1 < 0 /\ d2 < 0 THEN d1 * d1 * n2 <= d2 * d2 * n1
     ELSE d1 >= 0

\* graph.Search(q, k): the sets of keys the graph may return, the k nearest
\* nodes (all nodes when there are at most k); ties are broken either way.
Neighbors(q, k) ==
  { S \in SUBSET DOMAIN graph :
      /\ Cardinality(S) = Min(k, Cardinality(DOMAIN graph))
      /\ \A i \in S : \A j \in DOMAIN graph \ S :
           CloserOrEqual(q, graph[i], graph[j]) }

\* Search(query, k, threshold) when graph.Search returns the keys in
\* neighbors: the error and the matches (copies of the memMap entries).
Search(query, k, threshold, neighbors) ==
  IF Len(query) # dim
  THEN [err |-> "query embedding dimension mismatch", matches |-> {}]
  ELSE LET q == float32Slice(query)
           hit == { key \in neighbors :
                      /\ SimPasses(cosineSimilarity(q, graph[key]), threshold)
                      /\ key \in DOMAIN memMap }
       IN [err |-> "nil", matches |-> { memMap[key] : key \in hit }]

\* The neighbour sets Search can be given for a query (none is asked for when
\* the dimension check fails).
SearchNeighbors(query, k) ==
  IF Len(query) # dim THEN { {} } ELSE Neighbors(float32Slice(query), k)

\* ------------------------------------------------------------ the store
\* MemoryExists(id)
MemoryExists(id) == id \in DOMAIN coldStorage

\* The returned copies with their vectors left in place.
KeepEmbeddings(results) == results

\* results[i].Embedding = nil on the returned copies.
ClearEmbeddings(results) == { [r EXCEPT !.Embedding = NoEmbedding] : r \in results }

\* A recall that goes on to search although the provider reported an error.
RecallIgnoringError(query, k, threshold, provOK, neighbors) ==
  { [r EXCEPT !.Embedding = NoEmbedding] :
      r \in Search(ComputeEmbedding(query), k, threshold, neighbors).matches }

\* SearchMemories with the k and threshold it hands to Search left open;
\* provOK tells whether ComputeEmbedding succeeded.
Recall(query, k, threshold, provOK, neighbors) ==
  IF ~provOK THEN {}
  ELSE LET res == Search(ComputeEmbedding(query), k, threshold, neighbors)
       IN IF res.err # "nil" THEN {} ELSE ClearEmbeddings(res.matches)

\* A Remember that writes the entry to coldStorage before asking the
\* provider for its vector.
RememberStoreFirst(easyMem, provOK) ==
  \E id \in IDs \ issued :
    LET entry == [ID |-> id, Category |-> easyMem.Category,
                  Content |-> easyMem.Content,
                  Timestamp |-> Cardinality(issued) + 1,
                  Importance |-> easyMem.Importance,
                  Embedding |-> IF provOK THEN ComputeEmbedding(easyMem.Content)
                                ELSE NoEmbedding]
        ix == IndexMemory(entry)
    IN /\ issued' = issued \cup {id}
       /\ hotContext' = hotContext
       /\ coldStorage' = Put(coldStorage, id, entry)
       /\ graph' = IF provOK THEN ix.graph ELSE graph
       /\ memMap' = IF provOK THEN ix.memMap ELSE memMap
       /\ last' = Failed(Call("Remember", id, easyMem.Content, 0, 0,
                              IF ~provOK THEN "failed to compute embedding"
                              ELSE IF ix.err # "nil" THEN "failed to index memory"
                              ELSE "nil", {}), provOK)

\* Remember(easyMem)
Remember(easyMem, provOK) ==
  \E id \in NewUUIDs :
    LET entry == [ID |-> id, Category |-> easyMem.Category,
                  Content |-> easyMem.Content, Timestamp |-> Now,
                  Importance |-> easyMem.Importance,
                  Embedding |-> NoEmbedding]
    IN /\ issued' = issued \cup {id}
       /\ hotContext' = hotContext
       /\ IF ~provOK
          THEN /\ UNCHANGED <<coldStorage, graph, memMap>>
               /\ last' = Failed(Call("Remember", id, easyMem.Content, 0, 0,
                                      "failed to compute embedding", {}), FALSE)
          ELSE LET stored == [entry EXCEPT !.Embedding = ComputeEmbedding(easyMem.Content)]
                   ix == IndexMemory(stored)
               IN /\ coldStorage' = Put(coldStorage, id, stored)
                  /\ graph' = ix.graph
                  /\ memMap' = ix.memMap
                  /\ last' = Call("Remember", id, easyMem.Content, 0, 0,
                                  IF ix.err # "nil" THEN "failed to index memory" ELSE "nil",
                                  {})

\* A Forget that deletes without looking the id up first.
ForgetUnchecked(id) ==
  /\ coldStorage' = Drop(coldStorage, id)
  /\ last' = Call("Forget", id, "", 0, 0, "nil", {})
  /\ UNCHANGED <<hotContext, graph, memMap, issued>>

\* Forget(id)
Forget(id) ==
  /\ IF ~MemoryExists(id)
     THEN /\ coldStorage' = coldStorage
          /\ last' = Call("Forget", id, "", 0, 0, "not found", {})
     ELSE /\ coldStorage' = Drop(coldStorage, id)
          /\ last' = Call("Forget", id, "", 0, 0, "nil", {})
  /\ UNCHANGED <<hotContext, graph, memMap, issued>>

\* A SetContext that starts the cold tier afresh.
SetContextResetting(context) ==
  /\ hotContext' = context
  /\ coldStorage' = Empty
  /\ last' = [Call("SetContext", NoId, "", 0, 0, "nil", {}) EXCEPT !.ctx = context]
  /\ UNCHANGED <<graph, memMap, issued>>

\* SetContext(context)
SetContext(context) ==
  /\ hotContext' = context
  /\ last' = [Call("SetContext", NoId, "", 0, 0, "nil", {}) EXCEPT !.ctx = context]
  /\ UNCHANGED <<coldStorage, graph, memMap, issued>>

\* A GetContext that hands the hot context over and leaves it empty.
GetContextConsuming ==
  /\ last' = [Call("GetContext", NoId, "", 0, 0, "nil", {}) EXCEPT !.ctx = hotContext]
  /\ hotContext' = NoContext
  /\ UNCHANGED <<coldStorage, graph, memMap, issued>>

\* GetContext()
GetContext ==
  /\ last' = [Call("GetContext", NoId, "", 0, 0, "nil", {}) EXCEPT !.ctx = hotContext]
  /\ UNCHANGED <<hotContext, coldStorage, graph, memMap, issued>>

\* MemoryExists(id) called by a client
Exists(id) ==
  /\ last' = Call("MemoryExists", id, "", 0, 0,
                  IF MemoryExists(id) THEN "true" ELSE "false", {})
  /\ UNCHANGED <<hotContext, coldStorage, graph, memMap, issued>>

\* GetMemories(): every entry of coldStorage, as stored.
GetMemories ==
  /\ last' = Call("GetMemories", NoId, "", 0, 0, "nil",
                  { coldStorage[i] : i \in DOMAIN coldStorage })
  /\ UNCHANGED <<hotContext, coldStorage, graph, memMap, issued>>

\* SearchMemories(query): Search(emb, 10, 0.1)
SearchMemories(query, provOK) ==
  /\ \E nb \in SearchNeighbors(ComputeEmbedding(query), SearchK) :
       last' = [Failed(Call("SearchMemories", NoId, query, SearchK,
                            SearchThreshold, "nil",
                            Recall(query, SearchK, SearchThreshold, provOK, nb)),
                       provOK)
                EXCEPT !.calls = [provider |-> 1,
                                  index |-> IF provOK THEN 1 ELSE 0]]
  /\ UNCHANGED <<hotContext, coldStorage, graph, memMap, issued>>

\* The same recall path with the caller's k and threshold.
RecallKT(query, k, threshold, provOK) ==
  /\ \E nb \in SearchNeighbors(ComputeEmbedding(query), k) :
       last' = [Failed(Call("Recall", NoId, query, k, threshold, "nil",
                            Recall(query, k, threshold, provOK, nb)),
                       provOK)
                EXCEPT !.calls = [provider |-> 1,
                                  index |-> IF provOK THEN 1 ELSE 0]]
  /\ UNCHANGED <<hotContext, coldStorage, graph, memMap, issued>>

\* A loop that keeps only what the latest candidate recalled.
RECURSIVE resultsMapLatestOnly(_, _, _, _)
resultsMapLatestOnly(newMems, oks, nbs, n) ==
  IF n = 0 THEN Empty
  ELSE LET related == Recall(newMems[n].Content, SearchK, SearchThreshold,
                             oks[n], nbs[n])
       IN [i \in { mem.ID : mem \in related } |->
             CHOOSE mem \in related : mem.ID = i]

\* The loop of FilterRelatedMemories over newMems[1..n]: resultsMap after n
\* rounds, when the n-th ComputeEmbedding succeeds iff oks[n] and the n-th
\* graph.Search returns nbs[n].
RECURSIVE resultsMap(_, _, _, _)
resultsMap(newMems, oks, nbs, n) ==
  IF n = 0 THEN Empty
  ELSE LET prev == resultsMap(newMems, oks, nbs, n - 1)
           related == Recall(newMems[n].Content, SearchK, SearchThreshold,
                             oks[n], nbs[n])
           fresh == { mem \in related : mem.ID \notin DOMAIN prev }
       IN [i \in DOMAIN prev \cup { mem.ID : mem \in fresh } |->
             IF i \in DOMAIN prev THEN prev[i]
             ELSE CHOOSE mem \in fresh : mem.ID = i]

\* A variant that asks the provider once before looking at the list.
RECURSIVE loopCallsEager(_, _, _)
loopCallsEager(newMems, oks, n) ==
  IF n = 0 THEN [provider |-> 1, index |-> 1]
  ELSE LET prev == loopCallsEager(newMems, oks, n - 1)
       IN [provider |-> prev.provider + 1,
           index |-> prev.index + (IF oks[n] THEN 1 ELSE 0)]

\* The calls the loop of FilterRelatedMemories has made after n rounds: one
\* ComputeEmbedding per element, one Search per embedding obtained.
RECURSIVE loopCalls(_, _, _)
loopCalls(newMems, oks, n) ==
  IF n = 0 THEN [provider |-> 0, index |-> 0]
  ELSE LET prev == loopCalls(newMems, oks, n - 1)
       IN [provider |-> prev.provider + 1,
           index |-> prev.index + (IF oks[n] THEN 1 ELSE 0)]

\* What the successive graph.Search calls of the loop may return: one
\* neighbour set per element of newMems[1..n].
RECURSIVE LoopNeighbors(_, _)
LoopNeighbors(newMems, n) ==
  IF n = 0 THEN { <<>> }
  ELSE { Append(s, nb) :
           s \in LoopNeighbors(newMems, n - 1),
           nb \in SearchNeighbors(ComputeEmbedding(newMems[n].Content), SearchK) }

\* FilterRelatedMemories(newMems)
FilterRelatedMemories(newMems) ==
  /\ \E oks \in [1..Len(newMems) -> BOOLEAN],
        nbs \in LoopNeighbors(newMems, Len(newMems)) :
       LET rm == resultsMap(newMems, oks, nbs, Len(newMems))
       IN last' = [Failed(Call("FilterRelatedMemories", NoId, "", SearchK,
                               SearchThreshold, "nil",
                               { rm[i] : i \in DOMAIN rm }),
                          \A n \in 1..Len(newMems) : oks[n])
                   EXCEPT !.batch = newMems,
                          !.calls = loopCalls(newMems, oks, Len(newMems))]
  /\ UNCHANGED <<hotContext, coldStorage, graph, memMap, issued>>

Next ==
  \/ \E m \in EasyMemory, ok \in BOOLEAN : Remember(m, ok) /\ UNCHANGED <<conc, agent>>
  \/ \E id \in IDs : Forget(id) /\ UNCHANGED <<conc, agent>>
  \/ \E c \in HotTexts : SetContext(c) /\ UNCHANGED <<conc, agent>>
  \/ GetContext /\ UNCHANGED <<conc, agent>>
  \/ \E id \in IDs : Exists(id) /\ UNCHANGED <<conc, agent>>
  \/ GetMemories /\ UNCHANGED <<conc, agent>>
  \/ \E q \in Texts, ok \in BOOLEAN : SearchMemories(q, ok) /\ UNCHANGED <<conc, agent>>
  \/ \E b \in Batches : FilterRelatedMemories(b) /\ UNCHANGED <<conc, agent>>

Spec == Init /\ [][Next]_vars

\* The store driven through the recall path with every k and threshold.
NextRecall ==
  \/ \E m \in EasyMemory, ok \in BOOLEAN : Remember(m, ok) /\ UNCHANGED <<conc, agent>>
  \/ \E id \in IDs : Forget(id) /\ UNCHANGED <<conc, agent>>
  \/ \E q \in Texts, k \in Ks, t \in Thresholds, ok \in BOOLEAN :
       RecallKT(q, k, t, ok) /\ UNCHANGED <<conc, agent>>

SpecRecall == Init /\ [][NextRecall]_vars

\* ------------------------------------------------- goroutines on one store
\* Each goroutine calls one store method at a time.  A method blocks at
\* Lock/RLock until the mutex allows it, and the provider call inside
\* Remember and SearchMemories is a step of its own.  SpecConc runs the
\* methods of the cold tier, SpecHot those of the hot context.

\* pc values of a goroutine blocked in Lock, and in RLock.
LockWaits == {"rem_lock", "fg_lock", "sc_lock"}
RLockWaits == {"gc_rlock", "ex_rlock", "fr_rlock"}

\* sync.RWMutex: RLock succeeds though a writer is inside.
CanRLockAlways(p) == TRUE

\* sync.RWMutex.  Lock: one writer at a time announces itself (mu.pending)
\* and then waits for the readers inside to leave.  RLock: blocks while a
\* writer is announced or inside.  Unlock: the readers blocked at that
\* moment are let in before any other writer.
CanLock(p) ==
  /\ mu.writer = NoProc
  /\ mu.readers = {}
  /\ mu.pending \in {NoProc, p}
CanRLock(p) ==
  \/ p \in mu.readers
  \/ mu.writer = NoProc /\ mu.pending = NoProc
Locked(p) == [mu EXCEPT !.writer = p, !.pending = NoProc]
Unlocked ==
  [mu EXCEPT !.writer = NoProc,
             !.readers = {q \in Procs : pc[q] \in RLockWaits}]

\* Lock called while readers are inside: the writer announces itself.
cAnnounce(p) ==
  /\ pc[p] \in LockWaits
  /\ mu.writer = NoProc /\ mu.pending = NoProc /\ mu.readers # {}
  /\ mu' = [mu EXCEPT !.pending = p]
  /\ UNCHANGED <<store, last, pc, loc, hist>>

Goto(p, label) == pc' = [pc EXCEPT ![p] = label]
Return(p, locals) == /\ pc' = [pc EXCEPT ![p] = "idle"]
                     /\ loc' = [loc EXCEPT ![p] = locals]
\* The locals a finished call leaves behind: what it returned.
Returned(p) == [NoLocals EXCEPT !.ret = loc[p].ret, !.found = loc[p].found]

\* pc values between Lock and Unlock of a writing method.
WriteSections ==
  {"rem_embed", "rem_index", "rem_indexing", "fg_body", "sc_write", "sc_unlock"}
\* pc values between RLock and RUnlock.
ReadSections ==
  {"gc_read", "ex_read", "fr_embed", "fr_search", "fr_searching", "fr_runlock"}

\* Remember: the call, blocked at s.mu.Lock()
cCallRemember(p, m) ==
  /\ pc[p] = "idle"
  /\ Cardinality(issued) + Cardinality({q \in Procs : pc[q] = "rem_lock"}) < MaxIds
  /\ Goto(p, "rem_lock")
  /\ loc' = [loc EXCEPT ![p] = [NoLocals EXCEPT !.mem = m]]
  /\ hist' = [hist EXCEPT !.overlap =
                @ \/ \E q \in Procs : pc[q] \in {"rem_lock", "rem_embed", "rem_index"}]
  /\ UNCHANGED <<store, last, mu>>

\* Remember: Lock acquired, entry built with uuid.New() and time.Now()
cRememberLock(p) ==
  /\ pc[p] = "rem_lock"
  /\ CanLock(p)
  /\ \E id \in NewUUIDs :
       /\ issued' = issued \cup {id}
       /\ loc' = [loc EXCEPT ![p].id = id]
  /\ mu' = Locked(p)
  /\ Goto(p, "rem_embed")
  /\ UNCHANGED <<hotContext, coldStorage, graph, memMap, last, hist>>

\* Remember: ComputeEmbedding returns; on success the entry goes into
\* coldStorage.  (No id is issued while the lock is held, so the entry's
\* time.Now() tick is the number of ids issued.)
cRememberEmbed(p, provOK) ==
  /\ pc[p] = "rem_embed"
  /\ IF ~provOK
     THEN /\ mu' = Unlocked
          /\ Return(p, Returned(p))
          /\ UNCHANGED coldStorage
     ELSE /\ coldStorage' =
               Put(coldStorage, loc[p].id,
                   [ID |-> loc[p].id, Category |-> loc[p].mem.Category,
                    Content |-> loc[p].mem.Content,
                    Timestamp |-> Cardinality(issued),
                    Importance |-> loc[p].mem.Importance,
                    Embedding |-> ComputeEmbedding(loc[p].mem.Content)])
          /\ Goto(p, "rem_index")
          /\ UNCHANGED <<mu, loc>>
  /\ UNCHANGED <<hotContext, graph, memMap, issued, last, hist>>

\* Remember: IndexMemory, then the deferred Unlock and the return
cRememberIndex(p) ==
  /\ pc[p] = "rem_index"
  /\ LET ix == IndexMemory(coldStorage[loc[p].id])
     IN /\ graph' = ix.graph
        /\ memMap' = ix.memMap
        /\ hist' = IF ix.err = "nil"
                   THEN [hist EXCEPT !.commits = Append(@, loc[p].id)]
                   ELSE [hist EXCEPT !.spoiled = TRUE]
  /\ mu' = Unlocked
  /\ Return(p, Returned(p))
  /\ UNCHANGED <<hotContext, coldStorage, issued, last>>

\* Forget: the call, blocked at s.mu.Lock()
cCallForget(p, id) ==
  /\ pc[p] = "idle"
  /\ Goto(p, "fg_lock")
  /\ loc' = [loc EXCEPT ![p] = [NoLocals EXCEPT !.id = id]]
  /\ UNCHANGED <<store, last, mu, hist>>

cForgetLock(p) ==
  /\ pc[p] = "fg_lock"
  /\ CanLock(p)
  /\ mu' = Locked(p)
  /\ Goto(p, "fg_body")
  /\ UNCHANGED <<store, last, loc, hist>>

\* Forget: the lookup, the delete, the deferred Unlock and the return
cForgetBody(p) ==
  /\ pc[p] = "fg_body"
  /\ IF ~MemoryExists(loc[p].id)
     THEN UNCHANGED <<coldStorage, hist>>
     ELSE /\ coldStorage' = Drop(coldStorage, loc[p].id)
          /\ hist' = [hist EXCEPT !.spoiled = TRUE]
  /\ mu' = Unlocked
  /\ Return(p, Returned(p))
  /\ UNCHANGED <<hotContext, graph, memMap, issued, last>>

\* SetContext: the call, blocked at m.mu.Lock()
cCallSetContext(p, context) ==
  /\ pc[p] = "idle"
  /\ Goto(p, "sc_lock")
  /\ loc' = [loc EXCEPT ![p] = [NoLocals EXCEPT !.ctx = context]]
  /\ UNCHANGED <<store, last, mu, hist>>

cSetContextLock(p) ==
  /\ pc[p] = "sc_lock"
  /\ CanLock(p)
  /\ mu' = Locked(p)
  /\ Goto(p, "sc_write")
  /\ UNCHANGED <<store, last, loc, hist>>

\* SetContext: m.hotContext = context
cSetContextWrite(p) ==
  /\ pc[p] = "sc_write"
  /\ hotContext' = loc[p].ctx
  /\ Goto(p, "sc_unlock")
  /\ UNCHANGED <<coldStorage, graph, memMap, issued, last, mu, loc, hist>>

\* SetContext: the deferred Unlock and the return; the call is complete
cSetContextUnlock(p) ==
  /\ pc[p] = "sc_unlock"
  /\ mu' = Unlocked
  /\ hist' = [hist EXCEPT !.setDone = loc[p].ctx]
  /\ Return(p, Returned(p))
  /\ UNCHANGED <<store, last>>

\* GetContext: the call, blocked at m.mu.RLock()
cCallGetContext(p) ==
  /\ pc[p] = "idle"
  /\ Goto(p, "gc_rlock")
  /\ loc' = [loc EXCEPT ![p] = NoLocals]
  /\ UNCHANGED <<store, last, mu, hist>>

cGetContextRLock(p) ==
  /\ pc[p] = "gc_rlock"
  /\ CanRLock(p)
  /\ mu' = [mu EXCEPT !.readers = @ \cup {p}]
  /\ Goto(p, "gc_read")
  /\ UNCHANGED <<store, last, loc, hist>>

\* GetContext: return m.hotContext, with the deferred RUnlock
cGetContextRead(p) ==
  /\ pc[p] = "gc_read"
  /\ mu' = [mu EXCEPT !.readers = @ \ {p}]
  /\ Return(p, [NoLocals EXCEPT !.ret = hotContext])
  /\ UNCHANGED <<store, last, hist>>

\* MemoryExists: the call, blocked at s.mu.RLock()
cCallExists(p, id) ==
  /\ pc[p] = "idle"
  /\ Goto(p, "ex_rlock")
  /\ loc' = [loc EXCEPT ![p] = [NoLocals EXCEPT !.id = id]]
  /\ UNCHANGED <<store, last, mu, hist>>

cExistsRLock(p) ==
  /\ pc[p] = "ex_rlock"
  /\ CanRLock(p)
  /\ mu' = [mu EXCEPT !.readers = @ \cup {p}]
  /\ Goto(p, "ex_read")
  /\ UNCHANGED <<store, last, loc, hist>>

\* MemoryExists: the lookup, with the deferred RUnlock
cExistsRead(p) ==
  /\ pc[p] = "ex_read"
  /\ mu' = [mu EXCEPT !.readers = @ \ {p}]
  /\ Return(p, [NoLocals EXCEPT
                  !.found = IF MemoryExists(loc[p].id) THEN {loc[p].id} ELSE {}])
  /\ UNCHANGED <<store, last, hist>>

\* SearchMemories called directly: it takes no lock of the store.  The
\* provider call comes first; when it fails the method returns nil.
cCallSearch(p, query, provOK) ==
  /\ pc[p] = "idle"
  /\ IF provOK
     THEN /\ Goto(p, "sm_search")
          /\ loc' = [loc EXCEPT ![p] = [NoLocals EXCEPT !.text = query]]
     ELSE Return(p, NoLocals)
  /\ UNCHANGED <<store, last, mu, hist>>

\* SearchMemories: s.simSearcher.Search(emb, 10, 0.1) and the return
cSearch(p) ==
  /\ pc[p] = "sm_search"
  /\ \E nb \in SearchNeighbors(ComputeEmbedding(loc[p].text), SearchK) :
       Return(p, [NoLocals EXCEPT !.found =
                    { r.ID : r \in Recall(loc[p].text, SearchK,
                                          SearchThreshold, TRUE, nb) }])
  /\ UNCHANGED <<store, last, mu, hist>>

NextConc ==
  \/ \E p \in Procs, m \in EasyMemory : cCallRemember(p, m) /\ UNCHANGED <<agent, smu>>
  \/ \E p \in Procs : cRememberLock(p) /\ UNCHANGED <<agent, smu>>
  \/ \E p \in Procs, ok \in BOOLEAN : cRememberEmbed(p, ok) /\ UNCHANGED <<agent, smu>>
  \/ \E p \in Procs : cRememberIndex(p) /\ UNCHANGED <<agent, smu>>
  \/ \E p \in Procs, id \in IDs : cCallForget(p, id) /\ UNCHANGED <<agent, smu>>
  \/ \E p \in Procs : cForgetLock(p) /\ UNCHANGED <<agent, smu>>
  \/ \E p \in Procs : cForgetBody(p) /\ UNCHANGED <<agent, smu>>
  \/ \E p \in Procs, id \in IDs : cCallExists(p, id) /\ UNCHANGED <<agent, smu>>
  \/ \E p \in Procs : cExistsRLock(p) /\ UNCHANGED <<agent, smu>>
  \/ \E p \in Procs : cExistsRead(p) /\ UNCHANGED <<agent, smu>>
  \/ \E p \in Procs, q \in Texts, ok \in BOOLEAN : cCallSearch(p, q, ok) /\ UNCHANGED <<agent, smu>>
  \/ \E p \in Procs : cSearch(p) /\ UNCHANGED <<agent, smu>>
  \/ \E p \in Procs : cAnnounce(p) /\ UNCHANGED <<agent, smu>>

SpecConc == Init /\ [][NextConc]_vars

\* Goroutines setting and reading the hot context of one store.
NextHot ==
  \/ \E p \in Procs, c \in HotTexts : cCallSetContext(p, c) /\ UNCHANGED <<agent, smu>>
  \/ \E p \in Procs : cSetContextLock(p) /\ UNCHANGED <<agent, smu>>
  \/ \E p \in Procs : cSetContextWrite(p) /\ UNCHANGED <<agent, smu>>
  \/ \E p \in Procs : cSetContextUnlock(p) /\ UNCHANGED <<agent, smu>>
  \/ \E p \in Procs : cCallGetContext(p) /\ UNCHANGED <<agent, smu>>
  \/ \E p \in Procs : cGetContextRLock(p) /\ UNCHANGED <<agent, smu>>
  \/ \E p \in Procs : cGetContextRead(p) /\ UNCHANGED <<agent, smu>>
  \/ \E p \in Procs : cAnnounce(p) /\ UNCHANGED <<agent, smu>>

SpecHot == Init /\ [][NextHot]_vars

\* ------------------------------------- the two mutexes, every store method
\* The seven methods of the store called from several goroutines, with the
\* searcher's mutex explicit: IndexMemory and Search lock it on entry and
\* unlock it on return.  Remember calls IndexMemory inside the write lock
\* of the store, FilterRelatedMemories calls SearchMemories inside the read
\* lock, SearchMemories itself takes no lock of the store.

\* Inputs of the calls.
LockMemory == [Category |-> "Architecture", Content |-> "c", Importance |-> 3]
\* What they look for: a text whose vector is near enough to recall it.
LockQuery == [Category |-> "Architecture", Content |-> "a", Importance |-> 5]
LockBatches == { [i \in 1..n |-> LockQuery] : n \in 1..MaxBatch }
LockContext == [kind |-> "h1", mems |-> <<>>]

\* Remember: blocked at s.mu.Lock() of IndexMemory, then inside
cRememberIndexLock(p) ==
  /\ pc[p] = "rem_index"
  /\ smu = NoProc
  /\ smu' = p
  /\ Goto(p, "rem_indexing")
  /\ UNCHANGED <<store, last, mu, loc, hist>>

\* Remember: the body of IndexMemory and its Unlock, then the deferred
\* Unlock of the store and the return
cRememberIndexed(p) ==
  /\ pc[p] = "rem_indexing"
  /\ LET ix == IndexMemory(coldStorage[loc[p].id])
     IN /\ graph' = ix.graph
        /\ memMap' = ix.memMap
        /\ hist' = IF ix.err = "nil"
                   THEN [hist EXCEPT !.commits = Append(@, loc[p].id)]
                   ELSE [hist EXCEPT !.spoiled = TRUE]
  /\ smu' = NoProc
  /\ mu' = Unlocked
  /\ Return(p, Returned(p))
  /\ UNCHANGED <<hotContext, coldStorage, issued, last>>

\* SearchMemories: blocked at s.mu.Lock() of Search, then inside
cSearchLock(p) ==
  /\ pc[p] = "sm_search"
  /\ smu = NoProc
  /\ smu' = p
  /\ Goto(p, "sm_searching")
  /\ UNCHANGED <<store, last, mu, loc, hist>>

\* SearchMemories: the body of Search, its Unlock, and the return
cSearched(p) ==
  /\ pc[p] = "sm_searching"
  /\ \E nb \in SearchNeighbors(ComputeEmbedding(loc[p].text), SearchK) :
       Return(p, [NoLocals EXCEPT !.found =
                    { r.ID : r \in Recall(loc[p].text, SearchK,
                                          SearchThreshold, TRUE, nb) }])
  /\ smu' = NoProc
  /\ UNCHANGED <<store, last, mu, hist>>

\* FilterRelatedMemories: the call, blocked at s.mu.RLock()
cCallFilter(p, newMems) ==
  /\ pc[p] = "idle"
  /\ Goto(p, "fr_rlock")
  /\ loc' = [loc EXCEPT ![p] = [NoLocals EXCEPT !.batch = newMems, !.i = 1]]
  /\ UNCHANGED <<store, last, mu, hist, smu>>

cFilterRLock(p) ==
  /\ pc[p] = "fr_rlock"
  /\ CanRLock(p)
  /\ mu' = [mu EXCEPT !.readers = @ \cup {p}]
  /\ Goto(p, IF Len(loc[p].batch) = 0 THEN "fr_runlock" ELSE "fr_embed")
  /\ UNCHANGED <<store, last, loc, hist, smu>>

\* The loop after the round for newMems[i]
FilterNext(p) ==
  Goto(p, IF loc[p].i = Len(loc[p].batch) THEN "fr_runlock" ELSE "fr_embed")

\* FilterRelatedMemories: SearchMemories(nm.Content) asks the provider; a
\* failure ends this round with nothing found.
cFilterEmbed(p, provOK) ==
  /\ pc[p] = "fr_embed"
  /\ IF provOK
     THEN Goto(p, "fr_search") /\ UNCHANGED loc
     ELSE FilterNext(p) /\ loc' = [loc EXCEPT ![p].i = @ + 1]
  /\ UNCHANGED <<store, last, mu, hist, smu>>

\* A SearchMemories that takes the read lock of the store before it
\* searches, as the other readers do.
cFilterSearchLockNested(p) ==
  /\ pc[p] = "fr_search"
  /\ mu.writer = NoProc /\ mu.pending = NoProc
  /\ smu = NoProc
  /\ smu' = p
  /\ Goto(p, "fr_searching")
  /\ UNCHANGED <<store, last, mu, loc, hist>>

\* FilterRelatedMemories: blocked at s.mu.Lock() of Search, then inside
cFilterSearchLock(p) ==
  /\ pc[p] = "fr_search"
  /\ smu = NoProc
  /\ smu' = p
  /\ Goto(p, "fr_searching")
  /\ UNCHANGED <<store, last, mu, loc, hist>>

\* FilterRelatedMemories: the body of Search and its Unlock; what was found
\* goes into resultsMap.
cFilterSearched(p) ==
  /\ pc[p] = "fr_searching"
  /\ \E nb \in SearchNeighbors(ComputeEmbedding(loc[p].batch[loc[p].i].Content),
                               SearchK) :
       loc' = [loc EXCEPT
                 ![p].found = @ \cup
                    { r.ID : r \in Recall(loc[p].batch[loc[p].i].Content,
                                          SearchK, SearchThreshold, TRUE, nb) },
                 ![p].i = @ + 1]
  /\ FilterNext(p)
  /\ smu' = NoProc
  /\ UNCHANGED <<store, last, mu, hist>>

\* FilterRelatedMemories: the deferred RUnlock and the return
cFilterRUnlock(p) ==
  /\ pc[p] = "fr_runlock"
  /\ mu' = [mu EXCEPT !.readers = @ \ {p}]
  /\ Return(p, Returned(p))
  /\ UNCHANGED <<store, last, hist, smu>>

\* A goroutine calls a method.
LockCall(p) ==
  \/ /\ Cardinality(issued) < MaxIndexed
     /\ \A q \in Procs : pc[q] # "rem_lock"
     /\ cCallRemember(p, LockMemory)
     /\ UNCHANGED <<agent, smu>>
  \/ \E id \in IDs : cCallForget(p, id) /\ UNCHANGED <<agent, smu>>
  \/ cCallSetContext(p, LockContext) /\ UNCHANGED <<agent, smu>>
  \/ cCallGetContext(p) /\ UNCHANGED <<agent, smu>>
  \/ \E id \in IDs : cCallExists(p, id) /\ UNCHANGED <<agent, smu>>
  \/ cCallSearch(p, LockQuery.Content, TRUE) /\ UNCHANGED <<agent, smu>>
  \/ \E b \in LockBatches : cCallFilter(p, b) /\ UNCHANGED agent

\* A goroutine inside a method takes its next step.
LockStep(p) ==
  \/ cAnnounce(p) /\ UNCHANGED <<agent, smu>>
  \/ cRememberLock(p) /\ UNCHANGED <<agent, smu>>
  \/ \E ok \in BOOLEAN : cRememberEmbed(p, ok) /\ UNCHANGED <<agent, smu>>
  \/ cRememberIndexLock(p) /\ UNCHANGED agent
  \/ cRememberIndexed(p) /\ UNCHANGED agent
  \/ cForgetLock(p) /\ UNCHANGED <<agent, smu>>
  \/ cForgetBody(p) /\ UNCHANGED <<agent, smu>>
  \/ cSetContextLock(p) /\ UNCHANGED <<agent, smu>>
  \/ cSetContextWrite(p) /\ UNCHANGED <<agent, smu>>
  \/ cSetContextUnlock(p) /\ UNCHANGED <<agent, smu>>
  \/ cGetContextRLock(p) /\ UNCHANGED <<agent, smu>>
  \/ cGetContextRead(p) /\ UNCHANGED <<agent, smu>>
  \/ cExistsRLock(p) /\ UNCHANGED <<agent, smu>>
  \/ cExistsRead(p) /\ UNCHANGED <<agent, smu>>
  \/ cSearchLock(p) /\ UNCHANGED agent
  \/ cSearched(p) /\ UNCHANGED agent
  \/ cFilterRLock(p) /\ UNCHANGED agent
  \/ \E ok \in BOOLEAN : cFilterEmbed(p, ok) /\ UNCHANGED agent
  \/ cFilterSearchLock(p) /\ UNCHANGED agent
  \/ cFilterSearched(p) /\ UNCHANGED agent
  \/ cFilterRUnlock(p) /\ UNCHANGED agent

NextLock ==
  \/ \E p \in Procs : LockCall(p)
  \/ \E p \in Procs : LockStep(p)

SpecLock == Init /\ [][NextLock]_vars

\* ------------------------------------------------------------- the agent
\* BaseAgent.Think and EngineeringManagerAgent.createContext, one step per
\* call they make on the model client or on the store.  The model client's
\* answers (candidate lists, merged context, DeleteIDs) and its failures are
\* inputs of the steps.  cyc.clean is FALSE once any collaborator failed.

\* fmt.Sprintf("Context:\n%v", newMemories)
Render(newMemories) == [kind |-> "Context:", mems |-> newMemories]

Snapshot ==
  [hot |-> hotContext, cold |-> coldStorage, graph |-> graph,
   memMap |-> memMap]

\* Ids are opaque to the agent and to the store, so a run of the agent names
\* the n-th id that uuid.New() returns n.
Drawn == pool' = {Cardinality(issued') + 1}
FreeIds == Cardinality(CycleIDs) - Cardinality(issued)

\* Answers the model client gives when asked to merge a context.
MergedTexts == HotTexts \ {NoContext}

\* return err from Think or createContext
CycleReturn(c, err) == [c EXCEPT !.pc = "idle", !.ret = err]

\* RefreshMemories has returned err: Think logs it and goes on (to the task
\* response after the first pass, to its return after the second);
\* createContext returns it.
AfterRefresh(c, err) ==
  LET d == [c EXCEPT !.refresh = err,
                     !.clean = c.clean /\ err = "nil"]
  IN IF c.fn = "Think"
     THEN IF c.pass = 1 THEN [d EXCEPT !.pc = "respond"]
          ELSE CycleReturn(d, "nil")
     ELSE CycleReturn(d, IF err = "nil" THEN "nil"
                         ELSE "failed to refresh memories")

\* RefreshMemories after its Forget loop
AfterForget(c) ==
  IF Len(c.cands) > 0 THEN [c EXCEPT !.pc = "remember", !.i = 1]
  ELSE AfterRefresh(c, "nil")

ThinkCall ==
  /\ cyc.pc = "idle"
  /\ cyc.runs < MaxCycles
  /\ cyc' = [NoCycle EXCEPT !.fn = "Think", !.pc = "summarize", !.pass = 1,
                            !.runs = cyc.runs + 1, !.pre = Snapshot,
                            !.drawn = Cardinality(issued)]
  /\ UNCHANGED <<store, last>>

createContextCall ==
  /\ cyc.pc = "idle"
  /\ cyc.runs < MaxCycles
  /\ cyc' = [NoCycle EXCEPT !.fn = "createContext",
                            !.pc = IF build = "Summarize" THEN "summarize"
                                   ELSE "docs",
                            !.pass = IF build = "Summarize" THEN 1 ELSE 0,
                            !.runs = cyc.runs + 1, !.pre = Snapshot,
                            !.drawn = Cardinality(issued)]
  /\ UNCHANGED <<store, last>>

\* Summarize / CreateThoughts: the model client turns the input into
\* newMemories, or fails.  Think returns the error of its first call and
\* takes an empty list for the error of its second; createContext returns
\* the error.
Summarize(ok, newMemories) ==
  /\ cyc.pc = "summarize"
  /\ Len(newMemories) <= FreeIds
  /\ cyc' = IF ok THEN [cyc EXCEPT !.cands = newMemories, !.pc = "filter"]
            ELSE IF cyc.pass = 1
                 THEN CycleReturn([cyc EXCEPT !.clean = FALSE],
                                  "failed to summarize new input")
                 ELSE [cyc EXCEPT !.cands = <<>>, !.pc = "filter",
                                  !.clean = FALSE]
  /\ UNCHANGED <<store, last>>

\* createContext, step 1: CreateThoughts on the documentation
CreateThoughtsDocs(ok, docMemories) ==
  /\ cyc.pc = "docs"
  /\ 2 * Len(docMemories) <= FreeIds
  /\ cyc' = IF ~ok
            THEN CycleReturn([cyc EXCEPT !.clean = FALSE],
                             "failed to create thoughts from documentation")
            ELSE [cyc EXCEPT !.docs = docMemories, !.cands = docMemories,
                             !.i = 1,
                             !.pc = IF Len(docMemories) > 0
                                    THEN "remember_docs" ELSE "build"]
  /\ UNCHANGED <<store, last>>

\* createContext, step 1: em.Context.Remember(mem) for each documentation
\* memory; the error is dropped.
RememberDocs(ok) ==
  /\ cyc.pc = "remember_docs"
  /\ Remember(cyc.docs[cyc.i], ok)
  /\ cyc' = [cyc EXCEPT !.i = cyc.i + 1,
                        !.clean = cyc.clean /\ last'.err = "nil",
                        !.pc = IF cyc.i = Len(cyc.docs) THEN "build"
                               ELSE "remember_docs"]

\* createContext, step 2: the repository is read and CreateThoughts runs
\* on it; any failure returns.
CreateThoughtsRepo(ok, repoMemories) ==
  /\ cyc.pc = "repo"
  /\ Len(cyc.docs) + Len(repoMemories) <= FreeIds
  /\ Len(cyc.docs) + Len(repoMemories) <= MaxBatch
  /\ cyc' = IF ~ok
            THEN CycleReturn([cyc EXCEPT !.clean = FALSE],
                             "failed to create thoughts from repository info")
            ELSE [cyc EXCEPT !.cands = cyc.docs \o repoMemories,
                             !.pass = 1, !.pc = "filter"]
  /\ UNCHANGED <<store, last>>

\* collectedOldMemories := Context.FilterRelatedMemories(newMemories)
FilterRelated ==
  /\ cyc.pc = "filter"
  /\ FilterRelatedMemories(cyc.cands)
  /\ cyc' = [cyc EXCEPT !.related = last'.result,
                        !.clean = cyc.clean /\ last'.prov = "ok",
                        !.pc = IF cyc.fn = "Think" /\ cyc.pass = 2
                               THEN "refresh" ELSE "build"]

\* A BuildContext that asks the model client to merge whatever the hot
\* context and the old memories are.
BuildContextAlwaysMerging(ok, merged) ==
  /\ cyc.pc = "build"
  /\ cyc' = IF ok THEN [cyc EXCEPT !.merged = merged, !.pc = "set",
                                   !.merges = cyc.merges + 1]
            ELSE CycleReturn([cyc EXCEPT !.clean = FALSE,
                                         !.merges = cyc.merges + 1],
                             "failed to build updated context")
  /\ UNCHANGED <<store, last>>

\* BuildContext(newMemories, oldMemories): the rendered list when there is
\* neither a hot context nor an old memory, else the model client's merge.
\* cyc.merges counts the ChatAdvanced calls of BuildContext in this call.
BuildContext(ok, merged) ==
  /\ cyc.pc = "build"
  /\ cyc' = IF hotContext = NoContext /\ cyc.related = {}
            THEN [cyc EXCEPT !.merged = Render(cyc.cands), !.pc = "set"]
            ELSE IF ok THEN [cyc EXCEPT !.merged = merged, !.pc = "set",
                                        !.merges = cyc.merges + 1]
            ELSE CycleReturn([cyc EXCEPT !.clean = FALSE,
                                         !.merges = cyc.merges + 1],
                             IF cyc.pass = 0
                             THEN "failed to build initial context"
                             ELSE "failed to build updated context")
  /\ UNCHANGED <<store, last>>

\* Context.SetContext(updatedContext)
SetHotContext ==
  /\ cyc.pc = "set"
  /\ SetContext(cyc.merged)
  /\ cyc' = [cyc EXCEPT !.pc = IF cyc.pass = 0 THEN "repo" ELSE "refresh"]

\* RefreshMemories(oldMems, newMems) up to the model client's answer: the
\* CreateThoughts version returns nil at once when oldMems is empty; a
\* failing model client returns the error before either loop.
RefreshMemories(ok, deleteIDs) ==
  /\ cyc.pc = "refresh"
  /\ cyc' = IF build = "CreateThoughts" /\ cyc.related = {}
            THEN AfterRefresh(cyc, "nil")
            ELSE IF ~ok
                 THEN AfterRefresh(cyc, "failed to parse refreshMemories response")
            ELSE IF Len(deleteIDs) > 0
                 THEN [cyc EXCEPT !.del = deleteIDs, !.pc = "forget", !.i = 1]
                 ELSE AfterForget([cyc EXCEPT !.del = deleteIDs])
  /\ UNCHANGED <<store, last>>

\* A Forget loop that forgets every old memory, named or not.
RefreshForgetAllRelated ==
  /\ cyc.pc = "forget"
  /\ coldStorage' = [i \in DOMAIN coldStorage \ { m.ID : m \in cyc.related }
                       |-> coldStorage[i]]
  /\ last' = Call("Forget", cyc.del[cyc.i], "", 0, 0, "nil", {})
  /\ UNCHANGED <<hotContext, graph, memMap, issued>>
  /\ cyc' = IF cyc.i = Len(cyc.del) THEN AfterForget(cyc)
            ELSE [cyc EXCEPT !.i = cyc.i + 1]

\* RefreshMemories: for _, id := range delResp.DeleteIDs { Forget(id) },
\* an error is logged.
RefreshForget ==
  /\ cyc.pc = "forget"
  /\ Forget(cyc.del[cyc.i])
  /\ cyc' = LET c == [cyc EXCEPT !.clean = cyc.clean /\ last'.err = "nil"]
            IN IF cyc.i = Len(cyc.del) THEN AfterForget(c)
               ELSE [c EXCEPT !.i = cyc.i + 1]

\* A Remember loop that gives up at the first error.
RefreshRememberStopping(ok) ==
  /\ cyc.pc = "remember"
  /\ Remember(cyc.cands[cyc.i], ok)
  /\ cyc' = LET c == [cyc EXCEPT !.clean = cyc.clean /\ last'.err = "nil"]
            IN IF last'.err # "nil" THEN AfterRefresh(c, "failed to add new memory")
               ELSE IF cyc.i = Len(cyc.cands) THEN AfterRefresh(c, "nil")
               ELSE [c EXCEPT !.i = cyc.i + 1]

\* RefreshMemories: for _, emem := range newMems { Remember(emem) }, an
\* error is logged.
RefreshRemember(ok) ==
  /\ cyc.pc = "remember"
  /\ Remember(cyc.cands[cyc.i], ok)
  /\ cyc' = LET c == [cyc EXCEPT !.clean = cyc.clean /\ last'.err = "nil"]
            IN IF cyc.i = Len(cyc.cands) THEN AfterRefresh(c, "nil")
               ELSE [c EXCEPT !.i = cyc.i + 1]

\* Think after its first pass: the task response from the model client; a
\* failure returns, else the response is summarized in the second pass.
Respond(ok) ==
  /\ cyc.pc = "respond"
  /\ cyc' = IF ok
            THEN [NoCycle EXCEPT !.fn = "Think", !.pc = "summarize",
                                 !.pass = 2, !.runs = cyc.runs]
            ELSE CycleReturn([cyc EXCEPT !.clean = FALSE],
                             "failed to get task response")
  /\ UNCHANGED <<store, last>>

\* The agent, alone on a store that callers have filled before.
NextCycle ==
  \/ \E m \in EasyMemory :
       /\ cyc.runs = 0 /\ Cardinality(issued) < MaxIds
       /\ Remember(m, TRUE) /\ Drawn /\ UNCHANGED <<conc, build, cyc, wm>>
  \/ \E id \in CycleIDs :
       cyc.runs = 0 /\ Forget(id) /\ UNCHANGED <<conc, agent>>
  \/ ThinkCall /\ UNCHANGED <<conc, pool, build, wm>>
  \/ createContextCall /\ UNCHANGED <<conc, pool, build, wm>>
  \/ \E ok \in BOOLEAN, b \in Batches :
       Summarize(ok, b) /\ UNCHANGED <<conc, pool, build, wm>>
  \/ \E ok \in BOOLEAN, b \in Batches :
       CreateThoughtsDocs(ok, b) /\ UNCHANGED <<conc, pool, build, wm>>
  \/ \E ok \in BOOLEAN : RememberDocs(ok) /\ Drawn /\ UNCHANGED <<conc, build, wm>>
  \/ \E ok \in BOOLEAN, b \in Batches :
       CreateThoughtsRepo(ok, b) /\ UNCHANGED <<conc, pool, build, wm>>
  \/ FilterRelated /\ UNCHANGED <<conc, pool, build, wm>>
  \/ \E ok \in BOOLEAN, c \in MergedTexts :
       BuildContext(ok, c) /\ UNCHANGED <<conc, pool, build, wm>>
  \/ SetHotContext /\ UNCHANGED <<conc, pool, build, wm>>
  \/ \E ok \in BOOLEAN, d \in StaleLists :
       RefreshMemories(ok, d) /\ UNCHANGED <<conc, pool, build, wm>>
  \/ RefreshForget /\ UNCHANGED <<conc, pool, build, wm>>
  \/ \E ok \in BOOLEAN : RefreshRemember(ok) /\ Drawn /\ UNCHANGED <<conc, build, wm>>
  \/ \E ok \in BOOLEAN : Respond(ok) /\ UNCHANGED <<conc, pool, build, wm>>

InitCycle ==
  /\ hotContext = NoContext
  /\ coldStorage = Empty
  /\ graph = Empty
  /\ memMap = Empty
  /\ issued = {}
  /\ last = Call("New", NoId, "", 0, 0, "nil", {})
  /\ pc = [p \in Procs |-> "idle"]
  /\ mu = [writer |-> NoProc, readers |-> {}, pending |-> NoProc]
  /\ loc = [p \in Procs |-> NoLocals]
  /\ hist = [commits |-> <<>>, spoiled |-> FALSE, overlap |-> FALSE,
             setDone |-> NoContext]
  /\ smu = NoProc
  /\ pool = {1}
  /\ build \in Builds
  /\ cyc = NoCycle
  /\ wm = NoWorkflow

SpecCycle == InitCycle /\ [][NextCycle]_vars

\* ------------------------------------------ WorkflowManager, its methods
Defined(w, id) == id \in DOMAIN w.Config.Steps

NoChoices(err) == [choices |-> <<>>, err |-> err]

\* wm.NextChoices(): the targets (DecisionOption.NextStep) in order, or the
\* error.  A target that is the id of no step is left out.
NextChoices(w) ==
  IF ~Defined(w, w.currentStep) THEN NoChoices("current step not found")
  ELSE LET current == w.Config.Steps[w.currentStep]
           IsStep(t) == Defined(w, t)
           choices == SelectSeq(current.raw, IsStep)
       IN IF current.form = "none"
          THEN NoChoices("no next or options field found in step")
          ELSE IF current.form = "unsupported"
          THEN NoChoices("unsupported type for next field in step")
          ELSE IF \E i \in 1..Len(current.raw) : current.raw[i] = Malformed
          THEN NoChoices("invalid option format in step")
          ELSE IF Len(choices) = 0
          THEN NoChoices("no next choices found for step")
          ELSE [choices |-> choices, err |-> "nil"]

Called(w, op, id, err) == [w EXCEPT !.call = [op |-> op, id |-> id, err |-> err]]

Moved(w, id) == [w EXCEPT !.currentStep = id, !.Config.CurrentStep = id]

\* wm.NextStep(nextID)
NextStep(nextID) ==
  /\ wm.call.op # ""
  /\ LET r == NextChoices(wm)
     IN wm' = IF r.err # "nil" THEN Called(wm, "NextStep", nextID, r.err)
              ELSE IF \A i \in 1..Len(r.choices) : r.choices[i] # nextID
              THEN Called(wm, "NextStep", nextID, "is not a valid next choice")
              ELSE Called(Moved(wm, nextID), "NextStep", nextID, "nil")
  /\ UNCHANGED <<store, last, conc, pool, build, cyc>>

\* wm.SetCurrentStep(stepID)
SetCurrentStep(stepID) ==
  /\ wm.call.op # ""
  /\ wm' = IF Defined(wm, stepID)
           THEN Called(Moved(wm, stepID), "SetCurrentStep", stepID, "nil")
           ELSE Called(wm, "SetCurrentStep", stepID, "not found in workflow")
  /\ UNCHANGED <<store, last, conc, pool, build, cyc>>

NextWorkflow ==
  \/ \E id \in StepNames : NextStep(id)
  \/ \E id \in StepNames : SetCurrentStep(id)

\* One manager over any configuration the YAML file can hold.
InitWorkflow ==
  /\ hotContext = NoContext
  /\ coldStorage = Empty
  /\ graph = Empty
  /\ memMap = Empty
  /\ issued = {}
  /\ last = Call("New", NoId, "", 0, 0, "nil", {})
  /\ pc = [p \in Procs |-> "idle"]
  /\ mu = [writer |-> NoProc, readers |-> {}, pending |-> NoProc]
  /\ loc = [p \in Procs |-> NoLocals]
  /\ hist = [commits |-> <<>>, spoiled |-> FALSE, overlap |-> FALSE,
             setDone |-> NoContext]
  /\ smu = NoProc
  /\ pool = IDs
  /\ build = "Summarize"
  /\ cyc = NoCycle
  /\ wm \in { NewWorkflowManager(cfg) : cfg \in Config }

SpecWorkflow == InitWorkflow /\ [][NextWorkflow]_vars

\* ================================================================ claims

\* The query vector of the last recall, as Search sees it.
LastQuery == float32Slice(ComputeEmbedding(last.text))

RecallOps == {"SearchMemories", "FilterRelatedMemories", "Recall"}

\* C1: after every completed store operation the ids of the cold map are
\* exactly the ids that have a node in the similarity index.
C1_StoreIndexBijection ==
  /\ DOMAIN coldStorage = DOMAIN graph
  /\ DOMAIN coldStorage = DOMAIN memMap

\* C2: a successful Remember assigns an id that no earlier Remember on this
\* store was given, deleted records included, and MemoryExists(id) holds
\* right after it returns.
C2_FreshId ==
  [][ (last'.op = "Remember" /\ last'.err = "nil")
        => /\ last'.id \notin issued
           /\ (MemoryExists(last.id))' ]_vars

\* C2 witness: a Remember succeeded while the id of a record deleted earlier
\* is still known to the index.
C2_Witness ==
  /\ last.op = "Remember" /\ last.err = "nil"
  /\ \E id \in issued \ {last.id} :
       id \in DOMAIN memMap /\ id \notin DOMAIN coldStorage

\* C3: Forget of an id that is not in the cold map returns not-found and
\* changes neither the cold map, the index nor the hot context; after a
\* successful Forget the id no longer exists, and forgetting it again right
\* away returns not-found.
C3_ForgetAbsent ==
  [][ /\ (last'.op = "Forget" /\ ~MemoryExists(last'.id))
         => /\ last'.err = "not found"
            /\ UNCHANGED <<coldStorage, graph, memMap, hotContext>>
      /\ (last'.op = "Forget" /\ last'.err = "nil")
         => ~(MemoryExists(last.id))'
      /\ (last.op = "Forget" /\ last.err = "nil"
          /\ last'.op = "Forget" /\ last'.id = last.id)
         => last'.err = "not found" ]_vars

\* C3 witness: a Forget has just returned not-found for an id that had been
\* committed and forgotten before.
C3_Witness ==
  /\ last.op = "Forget" /\ last.err = "not found"
  /\ last.id \in DOMAIN memMap
  /\ last.id \notin DOMAIN coldStorage

\* C4: every record a recall returns exists in the cold map when the recall
\* returns (a forgotten record is never recalled).
C4_RecallOnlyLive ==
  last.op \in RecallOps
    => \A r \in last.result : r.ID \in DOMAIN coldStorage

\* C5: with the deterministic provider, a recall of a committed record's own
\* text with threshold 0.0 and k >= 1, when fewer than k other records
\* exist, returns that record.
C5_RecallFindsCommitted ==
  (last.op = "Recall" /\ last.prov = "ok" /\ last.t = 0 /\ last.k >= 1)
    => \A id \in DOMAIN coldStorage \cap DOMAIN graph :
         ( /\ coldStorage[id].Content = last.text
           /\ Cardinality(DOMAIN coldStorage \ {id}) < last.k )
         => \E r \in last.result : r.ID = id

\* C6: every record a recall with threshold t returns has cosine similarity
\* to the query of at least t.
C6_ThresholdIsCosine ==
  (last.op = "Recall" /\ last.prov = "ok")
    => \A r \in last.result :
         CosAtLeast(cosineSimilarity(LastQuery, graph[r.ID]), last.t)

\* C7: every record returned by SearchMemories or FilterRelatedMemories has
\* an empty embedding, while the vector kept for it in the index (and in
\* the cold map, if the record is still there) is the one that was stored.
C7_ReturnedCopiesCleared ==
  last.op \in {"SearchMemories", "FilterRelatedMemories"}
    => \A r \in last.result :
         /\ r.Embedding = NoEmbedding
         /\ r.ID \in DOMAIN memMap
         /\ memMap[r.ID].Embedding = ComputeEmbedding(r.Content)
         /\ graph[r.ID] = float32Slice(ComputeEmbedding(r.Content))
         /\ r.ID \in DOMAIN coldStorage
              => coldStorage[r.ID].Embedding = ComputeEmbedding(r.Content)

\* C7 witness: FilterRelatedMemories has returned at least one record.
C7_Witness ==
  /\ last.op = "FilterRelatedMemories"
  /\ last.result # {}

\* C8: no store operation that returns records hands out an embedding.
C8_NoEmbeddingReturned ==
  \A r \in last.result : r.Embedding = NoEmbedding

\* C9: when the provider fails or the index rejects the query vector,
\* SearchMemories returns an empty result and no error, and the cold map,
\* the index and the hot context are unchanged.
C9_RecallBestEffort ==
  [][ (/\ last'.op = "SearchMemories"
       /\ \/ last'.prov = "failed"
          \/ Len(ComputeEmbedding(last'.text)) # dim)
        => /\ last'.result = {}
           /\ last'.err = "nil"
           /\ UNCHANGED <<coldStorage, graph, memMap, hotContext>> ]_vars

\* C9 witness: SearchMemories came back empty because the provider failed,
\* although the index holds a node the query would have matched.
C9_Witness ==
  /\ last.op = "SearchMemories" /\ last.prov = "failed"
  /\ last.result = {}
  /\ Len(ComputeEmbedding(last.text)) = dim
  /\ \E id \in DOMAIN graph :
       SimPasses(cosineSimilarity(LastQuery, graph[id]), SearchThreshold)

\* C10: when the provider fails during Remember, Remember returns the
\* embedding error and neither the cold map nor the index changes.
C10_EmbeddingErrorAddsNothing ==
  [][ (last'.op = "Remember" /\ last'.prov = "failed")
        => /\ last'.err = "failed to compute embedding"
           /\ UNCHANGED <<coldStorage, graph, memMap>> ]_vars

\* C10 witness: a Remember failed on the provider while the store already
\* held a record.
C10_Witness ==
  /\ last.op = "Remember" /\ last.prov = "failed"
  /\ last.id \notin DOMAIN coldStorage
  /\ DOMAIN coldStorage # {}

\* C11: when the index insert fails during Remember, Remember returns an
\* error and the cold map keeps no record of it (the insert is rolled back).
C11_IndexFailureRollsBack ==
  (last.op = "Remember" /\ last.err = "failed to index memory")
    => last.id \notin DOMAIN coldStorage

\* What one candidate of the last FilterRelatedMemories call can recall when
\* the provider answers.
CandidateRecalls(n) ==
  { Recall(last.batch[n].Content, SearchK, SearchThreshold, TRUE, nb) :
      nb \in SearchNeighbors(ComputeEmbedding(last.batch[n].Content), SearchK) }

\* C12: FilterRelatedMemories returns the union of the per-candidate recalls,
\* one record per id: no two results share an id, every result comes from
\* the recall of some candidate, and when no provider call failed every
\* record recalled for a candidate is in the result.
C12_RelatedIsUnion ==
  last.op = "FilterRelatedMemories"
    => /\ \A r1, r2 \in last.result : r1.ID = r2.ID => r1 = r2
       /\ \A r \in last.result :
            \E n \in 1..Len(last.batch) : \E rs \in CandidateRecalls(n) : r \in rs
       /\ last.prov = "ok"
            => \A n \in 1..Len(last.batch) :
                 \E rs \in CandidateRecalls(n) : rs \subseteq last.result

\* C12 witness: two different candidates, each contributing a record the
\* other did not recall.
C12_Witness ==
  /\ last.op = "FilterRelatedMemories" /\ last.prov = "ok"
  /\ Len(last.batch) = 2
  /\ \E rs1 \in CandidateRecalls(1), rs2 \in CandidateRecalls(2) :
       rs1 \ rs2 # {} /\ rs2 \ rs1 # {}

\* C13: FilterRelatedMemories of an empty list returns nothing and makes no
\* call to the provider and no query to the index.
C13_EmptyListNoCalls ==
  (last.op = "FilterRelatedMemories" /\ last.batch = <<>>)
    => /\ last.result = {}
       /\ last.calls.provider = 0
       /\ last.calls.index = 0

\* C13 witness: the empty list was passed while the index holds nodes.
C13_Witness ==
  /\ last.op = "FilterRelatedMemories" /\ last.batch = <<>>
  /\ DOMAIN graph # {}

\* C14: an index insert with a vector whose length is not dim fails with the
\* dimension error and leaves the index as it was; every vector in the index
\* has length dim.
C14_IndexKeepsDimension ==
  [][ /\ \A id \in DOMAIN graph' : Len(graph'[id]) = dim
      /\ \A id \in DOMAIN memMap' : Len(memMap'[id].Embedding) = dim
      /\ (/\ last'.op = "Remember" /\ last'.prov = "ok"
          /\ Len(ComputeEmbedding(last'.text)) # dim)
         => /\ last'.err = "failed to index memory"
            /\ UNCHANGED <<graph, memMap>> ]_vars

\* C14 witness: a Remember was refused by the index, which holds a node.
C14_Witness ==
  /\ last.op = "Remember" /\ last.err = "failed to index memory"
  /\ DOMAIN graph # {}

\* C15: when only successful Remember calls have run, from any number of
\* goroutines in any interleaving, and none is inside its critical section,
\* the ids they were given are pairwise distinct and the cold map holds
\* exactly one entry per call.
C15_ConcurrentCommits ==
  (~hist.spoiled /\ \A p \in Procs : pc[p] \notin {"rem_embed", "rem_index"})
    => /\ \A i, j \in 1..Len(hist.commits) :
            hist.commits[i] = hist.commits[j] => i = j
       /\ \A i \in 1..Len(hist.commits) : hist.commits[i] \in DOMAIN coldStorage
       /\ Cardinality(DOMAIN coldStorage) = Len(hist.commits)

\* C15 witness: two Remember calls that overlapped have both succeeded.
C15_Witness ==
  /\ Len(hist.commits) >= 2
  /\ hist.overlap /\ ~hist.spoiled
  /\ \A p \in Procs : pc[p] = "idle"

\* C16: while a writing method is between Lock and Unlock, no other store
\* method is inside its own section, SearchMemories included; so a recall
\* never runs while a Remember has written the cold map but not the index.
C16_WritersExcludeAll ==
  \A p \in Procs :
    pc[p] \in WriteSections
      => \A q \in Procs \ {p} :
           pc[q] \notin WriteSections \cup ReadSections \cup {"sm_search"}

\* C17: GetContext returns the argument of the SetContext that completed
\* most recently (the empty string if none has), whatever the interleaving.
C17_LastWriterWins ==
  [][ \A p \in Procs :
        (pc[p] = "gc_read" /\ pc'[p] = "idle")
          => /\ loc'[p].ret = hist.setDone
             /\ loc'[p].ret \in HotTexts ]_vars

\* C17 witness: a GetContext has returned the text of the last completed
\* SetContext while another goroutine waits to set a different text.
C17_Witness ==
  \E p, q \in Procs :
    /\ pc[p] = "idle" /\ loc[p].ret # NoContext
    /\ loc[p].ret = hist.setDone
    /\ pc[q] = "sc_lock" /\ loc[q].ctx # loc[p].ret

\* Think has finished its first pass (Summarize to RefreshMemories) with
\* every collaborator call having succeeded.
FirstPassDone == cyc.fn = "Think" /\ cyc.pc = "respond" /\ cyc.clean

\* The record of coldStorage[id] carries the fields of the candidate.
Carries(id, easyMem) ==
  /\ coldStorage[id].Category = easyMem.Category
  /\ coldStorage[id].Content = easyMem.Content
  /\ coldStorage[id].Importance = easyMem.Importance

\* C18: starting from an empty hot context and an empty cold tier, a cycle
\* whose Summarize yields exactly one candidate and whose related set is
\* empty ends with the hot context containing the candidate's content and
\* with the cold tier holding exactly one record, which carries the
\* candidate's category, content and importance.
C18_FirstMemoryStored ==
  ( /\ FirstPassDone
    /\ cyc.pre.hot = NoContext
    /\ cyc.pre.cold = Empty
    /\ Len(cyc.cands) = 1
    /\ cyc.related = {} )
    => /\ \E i \in 1..Len(hotContext.mems) :
            hotContext.mems[i].Content = cyc.cands[1].Content
       /\ Cardinality(DOMAIN coldStorage) = 1
       /\ \A id \in DOMAIN coldStorage : Carries(id, cyc.cands[1])

\* The cycle of C19: the store held exactly two records, both came back as
\* related, there is one candidate, and the model client named one of the
\* two records for deletion.
StaleReplacementCase ==
  /\ FirstPassDone
  /\ Cardinality(DOMAIN cyc.pre.cold) = 2
  /\ { m.ID : m \in cyc.related } = DOMAIN cyc.pre.cold
  /\ Len(cyc.cands) = 1
  /\ Len(cyc.del) = 1
  /\ cyc.del[1] \in DOMAIN cyc.pre.cold

\* C19: when the store holds exactly records A and B, both recalled as
\* related, and a cycle runs with one candidate C and DeleteIDs = [A], then
\* after the cycle the cold tier is exactly {B, C}: A is absent, B is
\* unchanged, and C was added exactly once.
C19_StaleReplaced ==
  StaleReplacementCase
    => LET A == cyc.del[1]
           B == CHOOSE id \in DOMAIN cyc.pre.cold : id # A
       IN /\ A \notin DOMAIN coldStorage
          /\ B \in DOMAIN coldStorage
          /\ coldStorage[B] = cyc.pre.cold[B]
          /\ Cardinality(DOMAIN coldStorage) = 2
          /\ \E id \in DOMAIN coldStorage \ DOMAIN cyc.pre.cold :
               Carries(id, cyc.cands[1])

C19_Witness ==
  /\ StaleReplacementCase
  /\ cyc.del[1] \notin DOMAIN coldStorage
  /\ Cardinality(DOMAIN coldStorage) = 2

\* The errors Think and createContext return when a Summarize or
\* CreateThoughts call fails.
SummarizeErrors ==
  { "failed to summarize new input",
    "failed to create thoughts from documentation",
    "failed to create thoughts from repository info" }

\* C20: when Summarize fails, the cycle returns the error and the hot
\* context, the cold map and the index are what they were before the cycle
\* began.
C20_SummarizeFailureTouchesNothing ==
  (cyc.pc = "idle" /\ cyc.ret \in SummarizeErrors) => Snapshot = cyc.pre

\* The errors Think and createContext return when BuildContext fails, that
\* is when the model client fails to merge.
BuildContextErrors ==
  { "failed to build initial context", "failed to build updated context" }

\* C21: when the merge call of BuildContext fails, the cycle returns that
\* error and has performed no SetContext, no Forget and no Remember: the
\* hot context and the cold tier are what they were before the cycle began.
C21_MergeFailureTouchesNothing ==
  (cyc.pc = "idle" /\ cyc.ret \in BuildContextErrors)
    => /\ hotContext = cyc.pre.hot
       /\ coldStorage = cyc.pre.cold

\* The fields of a record that the store fixes when it creates it.
Fixed(mem) ==
  [Category |-> mem.Category, Content |-> mem.Content,
   Timestamp |-> mem.Timestamp, Importance |-> mem.Importance]

\* C22: a record of the cold tier keeps its category, content, creation
\* time and importance for as long as its id exists, and an id that left
\* never comes back; a record enters only by a Remember (under an id never
\* issued before) and leaves only by a Forget of its id; SetContext,
\* GetContext, MemoryExists, GetMemories, SearchMemories and
\* FilterRelatedMemories leave the cold tier as it is.
C22_RecordsImmutable ==
  [][ /\ \A id \in DOMAIN coldStorage \cap DOMAIN coldStorage' :
           Fixed(coldStorage'[id]) = Fixed(coldStorage[id])
      /\ \A id \in DOMAIN coldStorage' \ DOMAIN coldStorage :
           last'.op = "Remember" /\ last'.id = id /\ id \notin issued
      /\ \A id \in DOMAIN coldStorage \ DOMAIN coldStorage' :
           last'.op = "Forget" /\ last'.id = id
      /\ last'.op \notin {"Remember", "Forget"}
           => coldStorage' = coldStorage ]_vars

\* C22 witness: a record is still in the cold tier, as created, after a
\* later Remember, a Forget of another id and a SetContext.
C22_Witness ==
  /\ last.op = "SetContext"
  /\ hotContext # NoContext
  /\ Cardinality(issued) = MaxIds
  /\ \E id \in DOMAIN coldStorage :
       /\ coldStorage[id].Timestamp = 1
       /\ issued \ DOMAIN coldStorage # {}

\* The agent is inside Think or createContext and has not yet completed a
\* SetContext in this call.
HotNotYetSet ==
  \/ /\ cyc.fn = "Think" /\ cyc.pass = 1
     /\ cyc.pc \in {"summarize", "filter", "build", "set"}
  \/ /\ cyc.fn = "createContext" /\ build = "Summarize"
     /\ cyc.pc \in {"summarize", "filter", "build", "set"}
  \/ /\ cyc.fn = "createContext" /\ cyc.pass = 0
     /\ cyc.pc \in {"docs", "remember_docs", "build", "set"}

\* C23: within a cycle the hot context is updated first: until the cycle's
\* SetContext has completed, the cycle has forgotten and remembered nothing,
\* so the cold tier is what it was when the cycle began.
C23_HotContextFirst == HotNotYetSet => coldStorage = cyc.pre.cold

\* Remember calls the current call of Think or createContext has made:
\* every Remember draws one uuid, before anything else.
Attempts == Cardinality(issued) - cyc.drawn

\* The first RefreshMemories of the call has returned because the model
\* client failed to answer which memories to delete.
SelectStaleFailed ==
  /\ cyc.pass = 1
  /\ cyc.refresh = "failed to parse refreshMemories response"
  /\ \/ cyc.fn = "Think" /\ cyc.pc = "respond"
     \/ cyc.fn = "createContext" /\ cyc.pc = "idle"

\* C24: when the model client fails to name the stale memories after the
\* hot context has been set, no record is deleted, every candidate is still
\* passed to Remember, the hot context keeps the merged value, and the cycle
\* does not return an error.
C24_SelectStaleFailureContinues ==
  SelectStaleFailed
    => /\ \A id \in DOMAIN cyc.pre.cold : id \in DOMAIN coldStorage
       /\ Attempts = Len(cyc.cands)
       /\ hotContext = cyc.merged
       /\ cyc.ret \in {"", "nil"}

\* C25: when the hot context is empty and no old memory is related,
\* BuildContext makes no call to the model client and yields the rendering
\* of the candidates, a function of the candidates alone; otherwise it calls
\* the model client, once, and when that succeeds yields its answer; and
\* what BuildContext yielded is what the following SetContext stores.
C25_SkipOrMergeOnce ==
  [][ /\ (cyc.pc = "build" /\ hotContext = NoContext /\ cyc.related = {})
           => /\ cyc'.pc = "set"
              /\ cyc'.merges = cyc.merges
              /\ cyc'.merged = Render(cyc.cands)
      /\ (cyc.pc = "build" /\ ~(hotContext = NoContext /\ cyc.related = {}))
           => /\ cyc'.merges <= cyc.merges + 1
              /\ cyc'.pc = "set" => /\ cyc'.merges = cyc.merges + 1
                                    /\ cyc'.merged \in MergedTexts
      /\ cyc.pc = "set" => hotContext' = cyc.merged ]_vars

\* C25 witness: createContext has set the rendering of the documentation
\* memories without a merge, and then, the hot context being set, the one
\* merged answer of the model client.
C25_Witness ==
  /\ cyc.fn = "createContext" /\ cyc.pass = 1 /\ cyc.pc = "refresh"
  /\ Len(cyc.docs) > 0 /\ cyc.related = {}
  /\ cyc.merges = 1
  /\ hotContext \in MergedTexts

\* C26: in the loops of RefreshMemories every id of DeleteIDs is passed to
\* Forget and every candidate to Remember, in order, whatever the earlier
\* calls returned; after the last Forget the Remember loop starts; and
\* after the last Remember RefreshMemories returns nil, so no error reaches
\* the caller.
C26_BestEffortLoops ==
  [][ /\ cyc.pc = "forget"
           => /\ last'.op = "Forget" /\ last'.id = cyc.del[cyc.i]
              /\ cyc.i < Len(cyc.del)
                   => cyc'.pc = "forget" /\ cyc'.i = cyc.i + 1
              /\ (cyc.i = Len(cyc.del) /\ Len(cyc.cands) > 0)
                   => cyc'.pc = "remember" /\ cyc'.i = 1
              /\ (cyc.i = Len(cyc.del) /\ Len(cyc.cands) = 0)
                   => cyc'.refresh = "nil" /\ cyc'.ret \in {"", "nil"}
      /\ cyc.pc = "remember"
           => /\ last'.op = "Remember"
              /\ last'.text = cyc.cands[cyc.i].Content
              /\ cyc.i < Len(cyc.cands)
                   => cyc'.pc = "remember" /\ cyc'.i = cyc.i + 1
              /\ cyc.i = Len(cyc.cands)
                   => cyc'.refresh = "nil" /\ cyc'.ret \in {"", "nil"} ]_vars

\* C26 witness: the first pass has ended without an error although the
\* first Forget named an id that is not stored and the first Remember
\* failed; the second Forget removed its record and the second Remember
\* stored its candidate.
C26_Witness ==
  /\ cyc.pc = "respond" /\ cyc.refresh = "nil"
  /\ Len(cyc.del) = 2
  /\ cyc.del[1] \notin DOMAIN cyc.pre.cold
  /\ cyc.del[2] \in DOMAIN cyc.pre.cold
  /\ cyc.del[2] \notin DOMAIN coldStorage
  /\ Len(cyc.cands) = 2
  /\ Attempts = 2
  /\ Cardinality(DOMAIN coldStorage \ DOMAIN cyc.pre.cold) = 1
  /\ last.op = "Remember" /\ last.err = "nil"

\* The goroutines holding what p is blocked at: the searcher's mutex, or
\* the store's lock (for Lock the writer inside, an announced writer and the
\* readers inside; for RLock the writer inside or announced).
WaitsFor(p) ==
  IF pc[p] \in {"rem_index", "sm_search", "fr_search"} THEN {smu} \ {NoProc}
  ELSE IF pc[p] \in LockWaits
       THEN (({mu.writer, mu.pending} \ {NoProc}) \cup mu.readers) \ {p}
  ELSE IF pc[p] \in RLockWaits /\ p \notin mu.readers
       THEN {mu.writer, mu.pending} \ {NoProc}
  ELSE {}

\* The goroutines that can take a step, or wait only for goroutines that
\* will be able to: set after n more rounds of following the waits.
RECURSIVE Unblockable(_, _)
Unblockable(set, n) ==
  IF n = 0 THEN set
  ELSE Unblockable(set \cup { p \in Procs : /\ WaitsFor(p) # {}
                                            /\ WaitsFor(p) \subseteq set },
                   n - 1)

\* C27: whatever the interleaving of Remember, Forget, SetContext,
\* GetContext, MemoryExists, SearchMemories and FilterRelatedMemories calls
\* on one store, the store's lock and the searcher's mutex are never held
\* in a cyclic wait: every goroutine inside a call can take its next step,
\* or waits for goroutines that can, so every call can go on to return.
C27_NoCyclicWait ==
  LET going == Unblockable({ q \in Procs : ENABLED LockStep(q) }, MaxProcs)
  IN \A p \in Procs : pc[p] # "idle" => p \in going

\* C27 witness: FilterRelatedMemories holds the read lock and the
\* searcher's mutex while a Remember has announced itself at the write lock.
C27_Witness ==
  \E p, q \in Procs :
    /\ pc[p] = "fr_searching" /\ smu = p /\ p \in mu.readers
    /\ pc[q] = "rem_lock" /\ mu.pending = q

\* C28: a cycle deletes only records it recalled: every id removed from
\* the cold tier by the Forget loop of RefreshMemories belongs to a record of
\* the related set passed to RefreshMemories; an id of the answer outside
\* that set removes nothing.
C28_DeletesOnlyRecalled ==
  [][cyc.pc = "forget" =>
       (DOMAIN coldStorage \ DOMAIN coldStorage')
         \subseteq { m.ID : m \in cyc.related }]_vars

\* The calls of the store that only read.
ReadOnlyOps ==
  {"GetContext", "MemoryExists", "SearchMemories", "FilterRelatedMemories"}

\* C29: the tiers are independent: SetContext changes only the hot context
\* and leaves the cold map and the index unchanged; Remember and Forget,
\* whether they succeed or fail, leave the hot context unchanged;
\* GetContext, MemoryExists, SearchMemories and FilterRelatedMemories change
\* nothing.
C29_TierIndependence ==
  [][ /\ last'.op = "SetContext" =>
           /\ hotContext' = last'.ctx
           /\ <<coldStorage, graph, memMap>>' = <<coldStorage, graph, memMap>>
      /\ last'.op \in {"Remember", "Forget"} => hotContext' = hotContext
      /\ last'.op \in ReadOnlyOps =>
           <<hotContext, coldStorage, graph, memMap>>'
             = <<hotContext, coldStorage, graph, memMap>> ]_vars

\* C29 witness: a Remember has just failed, with a hot context set and a
\* record in the cold tier.
C29_Witness ==
  /\ last.op = "Remember" /\ last.err # "nil"
  /\ hotContext # NoContext
  /\ DOMAIN coldStorage # {}

\* The targets NextChoices() offers for the current step (none when it
\* returns an error).
Targets(w) ==
  { NextChoices(w).choices[i] : i \in 1..Len(NextChoices(w).choices) }

\* C30: NextStep(nextID) moves the current step to nextID only if nextID is
\* the target of one of NextChoices() for the current step, and otherwise
\* returns an error and leaves the current step unchanged;
\* SetCurrentStep(id) succeeds only for an id defined in the workflow; after
\* any sequence of these calls the manager's current step is a defined step
\* and equals Config.WorkflowControl.CurrentStep.
C30_WorkflowStepper ==
  /\ [][ /\ wm'.call.op = "NextStep" =>
              IF wm'.call.id \in Targets(wm)
              THEN wm'.call.err = "nil" /\ wm'.currentStep = wm'.call.id
              ELSE wm'.call.err # "nil" /\ wm'.currentStep = wm.currentStep
         /\ wm'.call.op = "SetCurrentStep" /\ wm'.call.err = "nil" =>
              Defined(wm, wm'.call.id) /\ wm'.currentStep = wm'.call.id ]_vars
  /\ [](wm.call.op \in {"NextStep", "SetCurrentStep"} =>
          /\ Defined(wm, wm.currentStep)
          /\ wm.currentStep = wm.Config.CurrentStep)

====
